---- MODULE Spec2Model ----
(***************************************************************************)
(* api-connector: Pipe, hashCode, the pending-request registry and the     *)
(* ApiRequest state machine of lib/utils.js and lib/ApiRequest.js.         *)
(*                                                                         *)
(* Data that flows through a pipe is a sequence of string tokens: the      *)
(* transport payload is a one-token sequence, a handler `a => a + 'B'`     *)
(* appends its tag, a handler `() => 'A'` returns the one-token sequence   *)
(* of its tag.                                                             *)
(***************************************************************************)
EXTENDS Integers, Sequences, FiniteSets, TLC

VARIABLES
  pipe,             \* Pipe.pipe of a stand-alone Pipe (utils.js:7)
  pipeRuns,         \* history: one record per process() call on that Pipe
  configs,          \* ApiRequest.configs (method, url) per Request
  validate,         \* ApiConnector.validateFunc, shared by its Requests
  callbacks,        \* ApiRequest.callbacks.{onOk,onFail,onCancel,onError}
  onStatus,         \* ApiRequest.callbacks.onStatus: status code -> Pipe
  result,           \* ApiRequest.result
  pendingRequests,  \* ApiConnector.pendingRequests: info -> requestId -> call
  pendingRequests2, \* this.pendingRequests of a second ApiConnector instance
  calls,            \* transport calls issued so far (axios.request promises)
  now,              \* Date.now()
  runs,             \* history: one record per Pipe.process() call of a Request
  lastOp,           \* history: the last public call and whether it raised
  nAttach,          \* number of handlers attached by the caller so far
  nOps,             \* number of calls the caller has made on Requests
  hashStr,          \* the argument str of a hashCode call (utils.js:35)
  hashKey           \* the value that hashCode call returned

vars == <<pipe, pipeRuns, configs, validate, callbacks, onStatus, result,
          pendingRequests, pendingRequests2, calls, now, runs, lastOp, nAttach, nOps,
          hashStr, hashKey>>

pipeVars == <<pipe, pipeRuns>>
reqVars == <<configs, validate, callbacks, onStatus, result, pendingRequests, pendingRequests2,
             calls, now, runs, lastOp, nAttach, nOps>>
hashVars == <<hashStr, hashKey>>

----------------------------------------------------------------------------
(* Bounds of the model *)

MaxStages == 3      \* stages joined to the stand-alone Pipe
MaxProcess == 2     \* process() calls on the stand-alone Pipe
MaxOps == 3         \* calls the caller makes on Requests (attach, start, cancel)

----------------------------------------------------------------------------
(* Values *)

Tags == <<"h1", "h2", "h3", "h4", "h5", "h6", "h7", "h8">>
Tag(n) == Tags[n]

Undefined == <<"undefined">>
TypeError == <<"TypeError">>
Cancel == <<"Cancel">>
NetworkError == <<"Error">>
\* the value a handler of the caller throws
Boom == <<"Boom">>

\* response.status, as the property key it is used as
Statuses == {"200", "201"}
Response(status) == IF status = "200" THEN <<"res200">> ELSE <<"res201">>
StatusOf(data) == IF data = <<"res200">> THEN "200" ELSE "201"

\* a handler the caller attaches: it closes over no registry entry; it
\* returns a constant ("const") or its input extended ("append"), or throws
\* an Error ("throw") or an axios Cancel ("throwCancel")
UserHandler(kind, n) == [kind |-> kind, tag |-> Tag(n), info |-> 0, rid |-> 0]
\* the handler start attaches to the four pipes (ApiRequest.js:250)
CleanupHandler(info, rid) == [kind |-> "cleanup", tag |-> "cleanup", info |-> info, rid |-> rid]
Kinds == {"const", "append"}

----------------------------------------------------------------------------
(* Pipe (utils.js) *)

\* a cleanup that leaves the emptied bucket in the registry
CleanupKeepBucket(pend, info, rid) ==
  [pend EXCEPT ![info] = [k \in DOMAIN pend[info] \ {rid} |-> pend[info][k]]]

\* the registry after the cleanup stage of start() has run on it
CleanupRegistry(pend, info, rid) ==
  LET bucket == [k \in DOMAIN pend[info] \ {rid} |-> pend[info][k]]
  IN  IF DOMAIN bucket = {}
      THEN [k \in DOMAIN pend \ {info} |-> pend[k]]
      ELSE [pend EXCEPT ![info] = bucket]

\* the cleanup stage dereferences this.pendingRequests[info]: a TypeError
\* when the bucket is gone
HandlerThrows(h, pend) ==
  \/ h.kind = "cleanup" /\ h.info \notin DOMAIN pend
  \/ h.kind \in {"throw", "throwCancel"}

\* the value the handler throws when it throws
Thrown(h) ==
  CASE h.kind = "cleanup"     -> TypeError
    [] h.kind = "throw"       -> Boom
    [] h.kind = "throwCancel" -> Cancel

\* a cleanup stage that returns nothing
HandlerOutputDropped(h, data) ==
  CASE h.kind = "const"   -> <<h.tag>>
    [] h.kind = "append"  -> data \o <<h.tag>>
    [] h.kind = "cleanup" -> Undefined

HandlerOutput(h, data) ==
  CASE h.kind = "const"   -> <<h.tag>>
    [] h.kind = "append"  -> data \o <<h.tag>>
    [] h.kind = "cleanup" -> data

HandlerRegistry(h, pend) ==
  IF h.kind = "cleanup" THEN CleanupRegistry(pend, h.info, h.rid) ELSE pend

\* a join that puts the handler first
JoinFirst(stages, h) == <<h>> \o stages

\* Pipe.join
Join(stages, h) == Append(stages, h)

\* the forEach of Pipe.process from stage i on: acc holds the running data,
\* the registry, the invocations made and whether a stage threw
RECURSIVE ForEach(_, _, _)
ForEach(stages, i, acc) ==
  IF i > Len(stages) THEN acc
  ELSE IF HandlerThrows(stages[i], acc.pend)
  THEN [acc EXCEPT !.threw = TRUE,
                   !.thrown = Thrown(stages[i]),
                   !.invs = Append(@, [h |-> stages[i], in |-> acc.data,
                                       out |-> Thrown(stages[i])])]
  ELSE ForEach(stages, i + 1,
         [acc EXCEPT !.data = HandlerOutput(stages[i], acc.data),
                     !.pend = HandlerRegistry(stages[i], acc.pend),
                     !.invs = Append(@, [h |-> stages[i], in |-> acc.data,
                                         out |-> HandlerOutput(stages[i], acc.data)])])

\* a process that leaves out the first stage
ProcessFromSecond(stages, initialData, pend) ==
  ForEach(stages, 2, [data |-> initialData, pend |-> pend, invs |-> <<>>, threw |-> FALSE,
                       thrown |-> Undefined])

\* Pipe.process(initialData)
Process(stages, initialData, pend) ==
  ForEach(stages, 1, [data |-> initialData, pend |-> pend, invs |-> <<>>, threw |-> FALSE,
                       thrown |-> Undefined])

----------------------------------------------------------------------------
(* The stand-alone Pipe: new Pipe(), join, process *)

EmptyRegistry == [k \in {} |-> <<>>]

PipeInit ==
  /\ pipe = <<>>
  /\ pipeRuns = <<>>

PipeJoin ==
  /\ Len(pipe) < MaxStages
  /\ \E kind \in Kinds : pipe' = Join(pipe, UserHandler(kind, Len(pipe) + 1))
  /\ UNCHANGED pipeRuns

PipeProcess ==
  /\ Len(pipeRuns) < MaxProcess
  /\ \E x \in {Response("200"), Response("201"), Undefined} :
       pipeRuns' = Append(pipeRuns,
          [input |-> x, joined |-> Len(pipe), invs |-> Process(pipe, x, EmptyRegistry).invs])
  /\ UNCHANGED pipe

----------------------------------------------------------------------------
(* hashCode (utils.js) on strings given as sequences of char codes *)

\* A 32-bit integer is kept as two 16-bit limbs [hi, lo] of its two's
\* complement, so that no intermediate value leaves the checker's integers.

Shl4(h) ==
  [lo |-> (h.lo * 16) % 65536,
   hi |-> (h.hi * 16 + (h.lo * 16) \div 65536) % 65536]

\* hash << 5
Shl5(h) ==
  [lo |-> (h.lo * 32) % 65536,
   hi |-> (h.hi * 32 + (h.lo * 32) \div 65536) % 65536]

\* ((hash << 5) - hash) + chr, then hash |= 0
Fold(h, chr) ==
  LET s == Shl5(h)
      t == s.lo - h.lo + chr
  IN  [lo |-> t % 65536, hi |-> (s.hi - h.hi + t \div 65536) % 65536]

\* the signed value of the limbs
Signed(h) == IF h.hi >= 32768 THEN (h.hi - 65536) * 65536 + h.lo ELSE h.hi * 65536 + h.lo

RECURSIVE HashFrom(_, _, _)
HashFrom(str, i, hash) ==
  IF i > Len(str) THEN Signed(hash)
  ELSE HashFrom(str, i + 1, Fold(hash, str[i]))

hashCode(str) == IF Len(str) = 0 THEN 0 ELSE HashFrom(str, 1, [hi |-> 0, lo |-> 0])

\* char codes of the strings the model uses
StrGET == <<71, 69, 84>>          \* "GET"
StrSlashA == <<47, 97>>           \* "/a"
StrEmpty == <<>>                  \* ""
StrX == <<120>>                   \* "x"
Identifiers == {StrEmpty, StrX}
\* two identifiers hashCode does not tell apart: 65 * 31 + 97 = 66 * 31 + 66
StrAa == <<65, 97>>               \* "Aa"
StrBB == <<66, 66>>               \* "BB"

----------------------------------------------------------------------------
(* ApiRequest (ApiRequest.js) *)

\* r1 and r2 are built with the same method, url and params, r3 with the same
\* method and url and other params, r4 with the url "/ax"; r5 is built like r1
\* by a second ApiConnector instance
Req == {"r1", "r2", "r3", "r4", "r5"}

\* the ApiConnector instance whose request() built the Request
Connector(r) == IF r = "r5" THEN 2 ELSE 1
Cats == {"onOk", "onFail", "onCancel", "onError"}
NoCall == 0

\* the key start and startSingle compute for a Request and an identifier
Info(cfg, identifier) == hashCode(cfg.method \o cfg.url \o identifier)

\* a validation that accepts every response
ValidAlways(v, response) == TRUE

\* this.validate: null, or a predicate on the response
Valid(v, response) ==
  CASE v = "none"  -> TRUE
    [] v = "is200" -> StatusOf(response) = "200"

\* an isCancel that recognises no cancellation
IsCancelNever(thrown) == FALSE

IsCancelAlways(thrown) == TRUE

\* Axios.isCancel
IsCancel(thrown) == thrown = Cancel

\* one Pipe.process call of Request r, recorded in the history
RunPipe(m, r, name, code, stages, data, cause) ==
  LET p == Process(stages, data, m.pend)
  IN  [m EXCEPT !.pend = p.pend,
                !.threw = p.threw,
                !.thrown = p.thrown,
                !.runs = Append(@, [req |-> r, call |-> m.result[r].call, pipe |-> name,
                                    code |-> code, cause |-> cause, input |-> data,
                                    len |-> Len(stages), invs |-> p.invs,
                                    threw |-> p.threw])]

\* a processResult that hands the last value of the status pipe to the ok or
\* fail pipe
processResultChained(m, r, cause) ==
  LET res == m.result[r]
  IN  IF ~res.isReady THEN m
      ELSE IF ~res.isError
      THEN LET st == StatusOf(res.response)
               m1 == IF st \in DOMAIN m.onStatus[r]
                     THEN RunPipe(m, r, "onStatus", st, m.onStatus[r][st], res.response, cause)
                     ELSE m
               run == m1.runs[Len(m1.runs)]
               data == IF st \notin DOMAIN m.onStatus[r] \/ run.invs = <<>> THEN res.response
                       ELSE run.invs[Len(run.invs)].out
           IN  IF m1.threw THEN m1
               ELSE IF Valid(m.validate, res.response)
               THEN RunPipe(m1, r, "onOk", "", m1.callbacks[r]["onOk"], data, cause)
               ELSE RunPipe(m1, r, "onFail", "", m1.callbacks[r]["onFail"], data, cause)
      ELSE IF IsCancel(res.thrown)
      THEN RunPipe(m, r, "onCancel", "", m.callbacks[r]["onCancel"], res.thrown, cause)
      ELSE RunPipe(m, r, "onError", "", m.callbacks[r]["onError"], res.thrown, cause)

\* ApiRequest.processResult
processResult(m, r, cause) ==
  LET res == m.result[r]
  IN  IF ~res.isReady THEN m
      ELSE IF ~res.isError
      THEN LET st == StatusOf(res.response)
               m1 == IF st \in DOMAIN m.onStatus[r]
                     THEN RunPipe(m, r, "onStatus", st, m.onStatus[r][st], res.response, cause)
                     ELSE m
           IN  IF m1.threw THEN m1
               ELSE IF Valid(m.validate, res.response)
               THEN RunPipe(m1, r, "onOk", "", m1.callbacks[r]["onOk"], res.response, cause)
               ELSE RunPipe(m1, r, "onFail", "", m1.callbacks[r]["onFail"], res.response, cause)
      ELSE IF IsCancel(res.thrown)
      THEN RunPipe(m, r, "onCancel", "", m.callbacks[r]["onCancel"], res.thrown, cause)
      ELSE RunPipe(m, r, "onError", "", m.callbacks[r]["onError"], res.thrown, cause)

\* the forEach of ApiRequest.onStatus: create the status pipe if absent, join
RECURSIVE JoinStatuses(_, _, _, _)
JoinStatuses(os, cb, statuses, i) ==
  IF i > Len(statuses) THEN os
  ELSE LET st == statuses[i]
           old == IF st \in DOMAIN os THEN os[st] ELSE <<>>
       IN  JoinStatuses([k \in DOMAIN os \cup {st} |-> IF k = st THEN Join(old, cb) ELSE os[k]],
                        cb, statuses, i + 1)

\* ApiRequest.onStatus(callback, ...statuses)
OnStatus(m, r, cb, statuses) ==
  processResult([m EXCEPT !.onStatus[r] = JoinStatuses(@, cb, statuses, 1)], r, "attach")

\* eventName.match(/onStatus=(.*)/) and JSON.parse of the group, for the event
\* names the model uses: parsed is FALSE when JSON.parse throws
StatusEvent(eventName) ==
  CASE eventName = "onStatus=200" -> [match |-> TRUE, parsed |-> TRUE, statuses |-> <<"200">>]
    [] eventName = "onStatus=201" -> [match |-> TRUE, parsed |-> TRUE, statuses |-> <<"201">>]
    [] eventName = "onStatus=[200, 201]" ->
         [match |-> TRUE, parsed |-> TRUE, statuses |-> <<"200", "201">>]
    [] eventName = "onStatus=[200, 201, 202]" ->
         [match |-> TRUE, parsed |-> TRUE, statuses |-> <<"200", "201", "202">>]
    [] eventName = "onStatus=[200" -> [match |-> TRUE, parsed |-> FALSE, statuses |-> <<>>]
    \* JSON.parse gives the string "x", which is no array: onStatus(callback, "x")
    [] eventName = "onStatus=\"x\"" -> [match |-> TRUE, parsed |-> TRUE, statuses |-> <<"x">>]
    \* JSON.parse gives null: onStatus(callback, null), the property key "null"
    [] eventName = "onStatus=null" -> [match |-> TRUE, parsed |-> TRUE, statuses |-> <<"null">>]
    [] OTHER -> [match |-> FALSE, parsed |-> FALSE, statuses |-> <<>>]

\* the loop of ApiRequest.onAny over eventNames from index i on
RECURSIVE OnAnyLoop(_, _, _, _, _)
OnAnyLoop(m, r, cb, eventNames, i) ==
  IF i > Len(eventNames) THEN m
  ELSE LET eventName == eventNames[i]
           ev == StatusEvent(eventName)
       IN  IF eventName \in Cats
           THEN OnAnyLoop([m EXCEPT !.callbacks[r][eventName] = Join(@, cb)],
                          r, cb, eventNames, i + 1)
           ELSE IF eventName = "onStatus"
           \* a key of this.callbacks whose value is no Pipe: .join is not a function
           THEN [m EXCEPT !.threw = TRUE, !.thrown = TypeError]
           ELSE IF ev.match /\ ev.parsed
           \* an exception of this.onStatus is swallowed by the catch of the try
           THEN OnAnyLoop([OnStatus(m, r, cb, ev.statuses) EXCEPT !.threw = FALSE],
                          r, cb, eventNames, i + 1)
           ELSE OnAnyLoop(m, r, cb, eventNames, i + 1)

\* ApiRequest.onAny(callback, ...eventNames)
OnAny(m, r, cb, eventNames) ==
  LET m1 == OnAnyLoop(m, r, cb, eventNames, 1)
  IN  IF m1.threw THEN m1 ELSE processResult(m1, r, "attach")

\* the event names of onOk, onFail, onResponse, onCancel, onError, then, onAnyError
Methods == {"onOk", "onFail", "onResponse", "onCancel", "onError", "then", "onAnyError"}
EventsOf(method) ==
  CASE method = "onOk"       -> <<"onOk">>
    [] method = "onFail"     -> <<"onFail">>
    [] method = "onResponse" -> <<"onOk", "onFail">>
    [] method = "onCancel"   -> <<"onCancel">>
    [] method = "onError"    -> <<"onError">>
    [] method = "then"       -> <<"onOk", "onFail", "onCancel", "onError">>
    [] method = "onAnyError" -> <<"onFail", "onError", "onCancel">>

\* one registry that the Requests of every ApiConnector instance share
PendingShared(r) == pendingRequests

\* the registry the constructor of Request r was handed: this.pendingRequests
\* of the ApiConnector that built it
PendingOf(r) == IF Connector(r) = 2 THEN pendingRequests2 ELSE pendingRequests

\* the program state the operators above thread through
Machine ==
  [callbacks |-> callbacks, onStatus |-> onStatus, result |-> result,
   pend |-> pendingRequests, validate |-> validate, runs |-> runs, threw |-> FALSE,
   thrown |-> Undefined]

\* the program state a call on Request r works on
MachineOf(r) == [Machine EXCEPT !.pend = PendingOf(r)]

----------------------------------------------------------------------------
(* Operations on Requests *)

\* Date.now() before the first start; each start reads it dt later
Epoch == 1000

NoResult == [isReady |-> FALSE, isError |-> FALSE, response |-> Undefined,
             thrown |-> Undefined, call |-> NoCall]

Op(name, r, threw, call, victims, cancelled) ==
  [op |-> name, req |-> r, threw |-> threw, call |-> call,
   victims |-> victims, cancelled |-> cancelled]

\* new ApiConnector(configs, validateFunc) and its reqGet(url, params), once
\* per Request
Init ==
  /\ PipeInit
  /\ configs = [r \in Req |-> [method |-> StrGET,
                               url |-> IF r = "r4" THEN StrSlashA \o StrX ELSE StrSlashA,
                               params |-> IF r = "r3" THEN "param1=2" ELSE "param1=1"]]
  /\ validate \in {"none", "is200"}
  /\ callbacks = [r \in Req |-> [c \in Cats |-> <<>>]]
  /\ onStatus = [r \in Req |-> [k \in {} |-> <<>>]]
  /\ result = [r \in Req |-> NoResult]
  /\ pendingRequests = EmptyRegistry
  /\ pendingRequests2 = EmptyRegistry
  /\ calls = <<>>
  /\ now = Epoch
  /\ runs = <<>>
  /\ lastOp = Op("none", "r1", FALSE, NoCall, {}, {})
  /\ nAttach = 0
  /\ nOps = 0
  /\ hashStr = StrEmpty
  /\ hashKey = hashCode(hashStr)

\* the assignments every Request operation ends with
Commit(m, op) ==
  /\ callbacks' = m.callbacks
  /\ onStatus' = m.onStatus
  /\ result' = m.result
  /\ pendingRequests' = IF Connector(op.req) = 2 THEN pendingRequests ELSE m.pend
  /\ pendingRequests2' = IF Connector(op.req) = 2 THEN m.pend ELSE pendingRequests2
  /\ runs' = m.runs
  /\ lastOp' = op

\* onOk, onFail, onResponse, onCancel, onError, then, onAnyError
Attach(r, method, kind) ==
  /\ nOps < MaxOps
  /\ LET m == OnAny(MachineOf(r), r, UserHandler(kind, nAttach + 1), EventsOf(method))
     IN  Commit(m, Op(method, r, m.threw, NoCall, {}, {}))
  /\ nAttach' = nAttach + 1
  /\ nOps' = nOps + 1
  /\ UNCHANGED <<pipeVars, hashVars, configs, validate, calls, now>>

\* onAny(callback, ...eventNames)
AttachAny(r, eventNames, kind) ==
  /\ nOps < MaxOps
  /\ LET m == OnAny(MachineOf(r), r, UserHandler(kind, nAttach + 1), eventNames)
     IN  Commit(m, Op("onAny", r, m.threw, NoCall, {}, {}))
  /\ nAttach' = nAttach + 1
  /\ nOps' = nOps + 1
  /\ UNCHANGED <<pipeVars, hashVars, configs, validate, calls, now>>

\* onStatus(callback, status)
AttachStatus(r, status, kind) ==
  /\ nOps < MaxOps
  /\ LET m == OnStatus(MachineOf(r), r, UserHandler(kind, nAttach + 1), <<status>>)
     IN  Commit(m, Op("onStatus", r, m.threw, NoCall, {}, {}))
  /\ nAttach' = nAttach + 1
  /\ nOps' = nOps + 1
  /\ UNCHANGED <<pipeVars, hashVars, configs, validate, calls, now>>

\* the in-flight calls started for the same method, url and identifier
SameTriple(r, identifier) ==
  {c \in DOMAIN calls :
     /\ ~calls[c].settled
     /\ configs[calls[c].req].method = configs[r].method
     /\ configs[calls[c].req].url = configs[r].url
     /\ calls[c].identifier = identifier}

\* the registry after start has added source.cancel of call c under requestId
Register(pend, info, requestId, c) ==
  [k \in DOMAIN pend \cup {info} |->
     IF k = info
     THEN [i \in (IF info \in DOMAIN pend THEN DOMAIN pend[info] ELSE {}) \cup {requestId} |->
             IF i = requestId THEN c ELSE pend[info][i]]
     ELSE pend[k]]

\* ApiRequest.start(identifier) as a function of the program state: the
\* transport call is call number c, Date.now() returns requestId
start(m, r, identifier, c, requestId) ==
  LET info == Info(configs[r], identifier)
      m1 == [m EXCEPT !.result[r].isReady = FALSE,
                      !.pend = Register(@, info, requestId, c)]
  IN  OnAny(m1, r, CleanupHandler(info, requestId), EventsOf("then"))

\* The asynchronous handle start and startSingle return for a call. The
\* library's start of ApiRequest.js returns the cancel function only; the
\* handle follows the documented outcomes of start (index.d.ts): resolved with
\* the last value of the ok pipe, rejected with {isFail: true, data} or
\* {isCancel: true, data} of the fail or cancel pipe, rejected with the bare
\* last value of the error pipe.
PendingHandle ==
  [state |-> "pending", tagged |-> FALSE, isFail |-> FALSE, isCancel |-> FALSE,
   data |-> Undefined]

HandleFor(pipeName, data) ==
  CASE pipeName = "onOk" ->
         [state |-> "resolved", tagged |-> FALSE, isFail |-> FALSE, isCancel |-> FALSE,
          data |-> data]
    [] pipeName = "onFail" ->
         [state |-> "rejected", tagged |-> TRUE, isFail |-> TRUE, isCancel |-> FALSE,
          data |-> data]
    [] pipeName = "onCancel" ->
         [state |-> "rejected", tagged |-> TRUE, isFail |-> FALSE, isCancel |-> TRUE,
          data |-> data]
    [] pipeName = "onError" ->
         [state |-> "rejected", tagged |-> FALSE, isFail |-> FALSE, isCancel |-> FALSE,
          data |-> data]

\* the value a pipe run ended with
FinalValue(run) == IF run.invs = <<>> THEN run.input ELSE run.invs[Len(run.invs)].out

\* the handle after a settlement that added the runs after index n to the
\* history: the first terminal pipe that ran to its end settles it, a pipe
\* that threw hands no value out
SettleHandle(rs, n) ==
  LET done == {i \in DOMAIN rs : i > n /\ rs[i].pipe \in Cats /\ ~rs[i].threw}
  IN  IF done = {} THEN PendingHandle
      ELSE LET i == CHOOSE j \in done : \A k \in done : j <= k
           IN  HandleFor(rs[i].pipe, FinalValue(rs[i]))

\* Request r has been started before and none of its calls is in flight
Restart(r) ==
  /\ \E c \in DOMAIN calls : calls[c].req = r
  /\ \A c \in DOMAIN calls : calls[c].req = r => calls[c].settled

\* the transport call start issues; restart records whether the Request was
\* settled when it was issued
NewCall(r, identifier, requestId) ==
  [req |-> r, identifier |-> identifier, info |-> Info(configs[r], identifier),
   rid |-> requestId, cancelled |-> FALSE, settled |-> FALSE, outcome |-> Undefined,
   restart |-> Restart(r), handle |-> PendingHandle]

\* dt: the milliseconds Date.now() has advanced since it was last read
Start(r, identifier, dt) ==
  /\ nOps < MaxOps
  /\ LET c == Len(calls) + 1
         m == start(MachineOf(r), r, identifier, c, now + dt)
     IN  Commit(m, Op("start", r, m.threw, c, {}, {}))
  /\ calls' = Append(calls, NewCall(r, identifier, now + dt))
  /\ now' = now + dt
  /\ nOps' = nOps + 1
  /\ UNCHANGED <<pipeVars, hashVars, configs, validate, nAttach>>

\* a cancel loop that invokes every value of the bucket
CancelLoopValues(bucket, i, l, acc) ==
  [acc EXCEPT !.cancelled = {bucket[k] : k \in DOMAIN bucket}]

\* the cancel loop of startSingle over i = 0 .. l-1: pendingRequests[i]() is a
\* TypeError when the bucket has no key i; acc.cancelled are the calls whose
\* source.cancel was invoked
RECURSIVE CancelLoop(_, _, _, _)
CancelLoop(bucket, i, l, acc) ==
  IF i >= l THEN acc
  ELSE IF i \notin DOMAIN bucket THEN [acc EXCEPT !.threw = TRUE]
  ELSE CancelLoop(bucket, i + 1, l, [acc EXCEPT !.cancelled = @ \cup {bucket[i]}])

\* a startSingle that invokes every handle of the registry, whatever its key
CancelEvery(pend, info) ==
  [cancelled |-> UNION {{pend[k][i] : i \in DOMAIN pend[k]} : k \in DOMAIN pend}, threw |-> FALSE]

\* the calls startSingle cancels before it calls start, and whether it threw
CancelPending(pend, info) ==
  IF info \in DOMAIN pend
  THEN CancelLoop(pend[info], 0, Cardinality(DOMAIN pend[info]), [cancelled |-> {}, threw |-> FALSE])
  ELSE [cancelled |-> {}, threw |-> FALSE]

\* a source.cancel that aborts every call in flight
CancelInFlight(cs) ==
  [c \in DOMAIN calls |->
     IF ~calls[c].settled THEN [calls[c] EXCEPT !.cancelled = TRUE] ELSE calls[c]]

\* source.cancel() of each call of cs: no effect on a settled call
CancelCalls(cs) ==
  [c \in DOMAIN calls |->
     IF c \in cs /\ ~calls[c].settled THEN [calls[c] EXCEPT !.cancelled = TRUE] ELSE calls[c]]

StartSingle(r, identifier, dt) ==
  /\ nOps < MaxOps
  /\ LET info == Info(configs[r], identifier)
         cp == CancelPending(PendingOf(r), info)
         c == Len(calls) + 1
         victims == SameTriple(r, identifier)
     IN  IF cp.threw
         THEN /\ Commit(MachineOf(r), Op("startSingle", r, TRUE, NoCall, victims, cp.cancelled))
              /\ calls' = CancelCalls(cp.cancelled)
              /\ now' = now
         ELSE LET m == start(MachineOf(r), r, identifier, c, now + dt)
              IN  /\ Commit(m, Op("startSingle", r, m.threw, c, victims, cp.cancelled))
                  /\ calls' = Append(CancelCalls(cp.cancelled), NewCall(r, identifier, now + dt))
                  /\ now' = now + dt
  /\ nOps' = nOps + 1
  /\ UNCHANGED <<pipeVars, hashVars, configs, validate, nAttach>>

\* the caller invokes the cancel function start / startSingle returned
CancelCall(c) ==
  /\ nOps < MaxOps
  /\ c \in DOMAIN calls
  /\ ~calls[c].settled
  /\ ~calls[c].cancelled
  /\ calls' = CancelCalls({c})
  /\ lastOp' = Op("cancel", calls[c].req, FALSE, c, {}, {c})
  /\ nOps' = nOps + 1
  /\ UNCHANGED <<pipeVars, hashVars, configs, validate, callbacks, onStatus, result,
                 pendingRequests, pendingRequests2, now, runs, nAttach>>

\* Request.cancel() is declared in index.d.ts and is no method of the class
\* of ApiRequest.js: it invokes the cancel function of the Request's most
\* recent call when that call is in flight and does nothing otherwise.
MostRecent(r) ==
  LET own == {c \in DOMAIN calls : calls[c].req = r}
  IN  IF own = {} THEN NoCall ELSE CHOOSE c \in own : \A c2 \in own : c2 <= c

Outstanding(r) == MostRecent(r) # NoCall /\ ~calls[MostRecent(r)].settled

RequestCancel(r) ==
  /\ nOps < MaxOps
  /\ calls' = IF Outstanding(r) THEN CancelCalls({MostRecent(r)}) ELSE calls
  /\ lastOp' = Op("Request.cancel", r, FALSE, MostRecent(r), {},
                  IF Outstanding(r) THEN {MostRecent(r)} ELSE {})
  /\ nOps' = nOps + 1
  /\ UNCHANGED <<pipeVars, hashVars, configs, validate, callbacks, onStatus, result,
                 pendingRequests, pendingRequests2, now, runs, nAttach>>

\* a promise chain without the .catch after the .then
SettlementNoCatch(m, r, c, isError, payload) ==
  processResult([m EXCEPT !.result[r] = [isReady |-> TRUE, isError |-> isError,
                                         response |-> IF isError THEN Undefined ELSE payload,
                                         thrown |-> IF isError THEN payload ELSE Undefined,
                                         call |-> c]],
                r, "settle")

\* the .then and .catch callbacks start puts on the axios promise of call c,
\* which settled with payload: the catch also receives what the then threw
Settlement(m, r, c, isError, payload) ==
  LET ready == [isReady |-> TRUE, isError |-> isError,
                response |-> IF isError THEN Undefined ELSE payload,
                thrown |-> IF isError THEN payload ELSE Undefined,
                call |-> c]
      m1 == processResult([m EXCEPT !.result[r] = ready], r, "settle")
  IN  IF isError \/ ~m1.threw THEN m1
      ELSE processResult(
             [m1 EXCEPT !.threw = FALSE,
                        !.result[r] = [isReady |-> TRUE, isError |-> TRUE,
                                       response |-> Undefined, thrown |-> m1.thrown,
                                       call |-> c]],
             r, "catch")

Payloads == {Response(s) : s \in Statuses} \cup {Cancel, NetworkError}

\* the transport settles call c: with Cancel when its source.cancel was
\* invoked, else with a response or with an error
Settle(c, payload) ==
  /\ c \in DOMAIN calls
  /\ ~calls[c].settled
  /\ IF calls[c].cancelled THEN payload = Cancel ELSE payload # Cancel
  /\ LET r == calls[c].req
         m == Settlement(MachineOf(r), r, c, payload \in {Cancel, NetworkError}, payload)
     IN  Commit(m, Op("settle", r, m.threw, c, {}, {}))
  /\ calls' = [calls EXCEPT ![c].settled = TRUE, ![c].outcome = payload,
                            ![c].handle = SettleHandle(runs', Len(runs))]
  /\ UNCHANGED <<pipeVars, hashVars, configs, validate, now, nAttach, nOps>>

\* one Request, every attachment method, the clock advancing between starts
Next ==
  \/ \E method \in Methods : Attach("r1", method, "append")
  \/ \E status \in Statuses : AttachStatus("r1", status, "append")
  \/ \E identifier \in Identifiers : Start("r1", identifier, 1)
  \/ \E identifier \in Identifiers : StartSingle("r1", identifier, 1)
  \/ \E c \in 1..MaxOps : CancelCall(c)
  \/ \E c \in 1..MaxOps, payload \in Payloads : Settle(c, payload)

Spec == Init /\ [][Next]_vars

\* two Requests of one connector that has no validateFunc
DedupInit ==
  /\ Init
  /\ validate = "none"

DedupPayloads == {Response("200"), Cancel, NetworkError}

DedupRequests == {"r1", "r2"}

DedupNext ==
  \/ Attach("r1", "then", "append")
  \/ \E r \in DedupRequests, identifier \in Identifiers, dt \in {0, 1} : Start(r, identifier, dt)
  \/ \E r \in DedupRequests, identifier \in Identifiers, dt \in {0, 1} :
       StartSingle(r, identifier, dt)
  \/ \E c \in 1..MaxOps : CancelCall(c)
  \/ \E c \in 1..MaxOps, payload \in DedupPayloads : Settle(c, payload)

DedupSpec == DedupInit /\ [][DedupNext]_vars

\* hashCode alone, on the strings of up to MaxStrLen char codes
MaxStrLen == 5
CharCodes == {65, 97, 65535}

HashInit ==
  /\ Init
  /\ validate = "none"

\* one hashCode call, on the last string extended by one char code
HashString(chr) ==
  /\ Len(hashStr) < MaxStrLen
  /\ hashStr' = Append(hashStr, chr)
  /\ hashKey' = hashCode(hashStr')
  /\ UNCHANGED <<pipeVars, reqVars>>

HashNext == \E chr \in CharCodes : HashString(chr)

HashSpec == HashInit /\ [][HashNext]_vars

\* the stand-alone Pipe alone
PipeSpecInit ==
  /\ Init
  /\ validate = "none"

PipeNext ==
  \/ PipeJoin /\ UNCHANGED <<reqVars, hashVars>>
  \/ PipeProcess /\ UNCHANGED <<reqVars, hashVars>>

PipeSpec == PipeSpecInit /\ [][PipeNext]_vars

\* the registry alone: two Requests that differ in params only, started with
\* equal identifiers, other identifiers, and identifiers of equal hashCode
RegistryInit ==
  /\ Init
  /\ validate = "none"

RegistryRequests == {"r1", "r3"}
RegistryIdentifiers == {StrEmpty, StrAa, StrBB}
RegistryPayloads == {Response("200")}

RegistryNext ==
  \/ \E r \in RegistryRequests, identifier \in RegistryIdentifiers : Start(r, identifier, 1)
  \/ \E r \in RegistryRequests, identifier \in RegistryIdentifiers : StartSingle(r, identifier, 1)
  \/ \E c \in 1..MaxOps, payload \in RegistryPayloads : Settle(c, payload)

RegistrySpec == RegistryInit /\ [][RegistryNext]_vars

\* one Request and onAny: event names that are supported, unsupported, status
\* specifications and malformed status specifications
OnAnyInit ==
  /\ Init
  /\ validate = "is200"

Unsupported == {<<"foo">>, <<"foo", "onOk">>, <<"onFail", "foo">>, <<"onStatus">>,
                <<"onStatus", "onOk">>}
Malformed == {<<"onStatus=[200">>, <<"onStatus=\"x\"">>, <<"onStatus=null">>}
StatusLists == {<<"onStatus=201">>, <<"onStatus=[200, 201, 202]">>,
                <<"onStatus=[200, 201, 202]", "onStatus=201">>}
EventLists == Unsupported \cup Malformed \cup StatusLists
Combined == {"onResponse", "then", "onAnyError"}

OnAnyNext ==
  \/ \E eventNames \in EventLists : AttachAny("r1", eventNames, "append")
  \/ \E method \in Combined : Attach("r1", method, "append")
  \/ \E identifier \in Identifiers : Start("r1", identifier, 1)
  \/ \E c \in 1..MaxOps, payload \in Payloads : Settle(c, payload)

OnAnySpec == OnAnyInit /\ [][OnAnyNext]_vars

\* two ApiConnector instances and one Request of each, built alike
ConnectorInit ==
  /\ Init
  /\ validate = "none"

ConnectorRequests == {"r1", "r5"}

ConnectorNext ==
  \/ \E r \in ConnectorRequests : Start(r, StrEmpty, 1)
  \/ \E r \in ConnectorRequests : StartSingle(r, StrEmpty, 1)
  \/ \E c \in 1..MaxOps, payload \in RegistryPayloads : Settle(c, payload)

ConnectorSpec == ConnectorInit /\ [][ConnectorNext]_vars

\* two Requests of one connector whose urls differ: "/a" started with the
\* identifier "x" and "/ax" with the identifier "" give the same string
ConcatInit ==
  /\ Init
  /\ validate = "none"

ConcatRequests == {"r1", "r4"}

ConcatNext ==
  \/ \E r \in ConcatRequests, identifier \in Identifiers : Start(r, identifier, 1)
  \/ \E r \in ConcatRequests, identifier \in Identifiers : StartSingle(r, identifier, 1)
  \/ \E c \in 1..MaxOps, payload \in RegistryPayloads : Settle(c, payload)

ConcatSpec == ConcatInit /\ [][ConcatNext]_vars

\* one Request whose handlers may throw: an Error or an axios Cancel
ThrowInit ==
  /\ Init
  /\ validate = "is200"

ThrowKinds == {"append", "throw", "throwCancel"}
ThrowMethods == {"onOk", "onFail", "onError"}

ThrowNext ==
  \/ \E method \in ThrowMethods, kind \in ThrowKinds : Attach("r1", method, kind)
  \/ \E kind \in ThrowKinds : AttachStatus("r1", "200", kind)
  \/ Start("r1", StrEmpty, 1)
  \/ \E c \in 1..MaxOps, payload \in Payloads : Settle(c, payload)

ThrowSpec == ThrowInit /\ [][ThrowNext]_vars

\* one Request and its cancel(): a cancel handler, starts, cancel(), settlements
CancelInit ==
  /\ Init
  /\ validate = "none"

CancelNext ==
  \/ Attach("r1", "onCancel", "append")
  \/ \E identifier \in Identifiers : Start("r1", identifier, 1)
  \/ RequestCancel("r1")
  \/ \E c \in 1..MaxOps, payload \in Payloads : Settle(c, payload)

CancelSpec == CancelInit /\ [][CancelNext]_vars

----------------------------------------------------------------------------
(* Properties of the stand-alone Pipe *)

\* stage n applied to ... stage 1 applied to x
RECURSIVE Compose(_, _, _)
Compose(stages, n, x) ==
  IF n = 0 THEN x ELSE HandlerOutput(stages[n], Compose(stages, n - 1, x))

\* C6: process(x) on a fresh Pipe with N joined stages invokes every stage
\* exactly once, in insertion order, stage 1 on x and stage k on the output of
\* stage k-1.
C6_PipeOrdering ==
  Len(pipeRuns) >= 1 =>
    LET run == pipeRuns[1]
    IN  /\ Len(run.invs) = run.joined
        /\ \A k \in 1..Len(run.invs) :
             /\ run.invs[k].h = UserHandler(run.invs[k].h.kind, k)
             /\ run.invs[k].h = pipe[k]
             /\ run.invs[k].in = Compose(pipe, k - 1, run.input)
             /\ run.invs[k].out = Compose(pipe, k, run.input)

C6_Witness ==
  /\ Len(pipeRuns) >= 1
  /\ pipeRuns[1].joined = 3
  /\ pipeRuns[1].input = Response("201")
  /\ pipeRuns[1].invs[3].out = <<"h2", "h3">>

\* the process() calls before call j that had a stage to run
Seeded(j) == {i \in 1..(j - 1) : pipeRuns[i].joined >= 1}

\* C7: after process has run the first k stages, a later process() runs only
\* the stages joined since, the first of them on the value stage k produced;
\* the stages already run are not invoked again and the new input is ignored.
C7_PipeResumption ==
  \A j \in 2..Len(pipeRuns) :
    Seeded(j) # {} =>
      LET k == pipeRuns[j - 1].joined
          first == CHOOSE i \in Seeded(j) : \A i2 \in Seeded(j) : i <= i2
          run == pipeRuns[j]
      IN  /\ Len(run.invs) = run.joined - k
          /\ \A n \in 1..Len(run.invs) :
               /\ run.invs[n].h = pipe[k + n]
               /\ run.invs[n].in = Compose(pipe, k + n - 1, pipeRuns[first].input)

----------------------------------------------------------------------------
(* Properties of Requests *)

Responses == {Response(s) : s \in Statuses}

\* the category a settlement with this payload belongs to, stated from the
\* documentation of validateFunc: no function, or it returns true
Accepted(payload) == validate = "none" \/ (validate = "is200" /\ payload = <<"res200">>)
CategoryOf(payload) ==
  IF payload \in Responses THEN (IF Accepted(payload) THEN "onOk" ELSE "onFail")
  ELSE IF payload = Cancel THEN "onCancel" ELSE "onError"

Settled == {c \in DOMAIN calls : calls[c].settled}
RunsOf(c) == {i \in DOMAIN runs : runs[i].call = c}

\* how often handler h was invoked in the invocations invs
RECURSIVE CountIn(_, _)
CountIn(invs, h) ==
  IF invs = <<>> THEN 0
  ELSE (IF Head(invs).h = h THEN 1 ELSE 0) + CountIn(Tail(invs), h)

\* how often h was invoked in the runs of pipe `name` for the settlement of c
RECURSIVE CountRuns(_, _, _, _)
CountRuns(i, c, name, h) ==
  IF i = 0 THEN 0
  ELSE (IF runs[i].call = c /\ runs[i].pipe = name THEN CountIn(runs[i].invs, h) ELSE 0)
       + CountRuns(i - 1, c, name, h)

C2_ExactlyOnePipe ==
  \A c \in Settled :
    Cardinality({i \in RunsOf(c) : runs[i].cause \in {"settle", "catch"}
                                   /\ runs[i].pipe \in Cats}) = 1

\* the settlement the Request still holds the result of
Current(c) == result[calls[c].req].isReady /\ result[calls[c].req].call = c

\* C3: every handler attached to the settled category is invoked exactly once
\* for the settlement, also when handlers are attached after it.
C3_ExactlyOnce ==
  \A c \in Settled :
    Current(c) =>
      LET stages == callbacks[calls[c].req][CategoryOf(calls[c].outcome)]
      IN  \A k \in DOMAIN stages :
            stages[k].kind # "cleanup" =>
              CountRuns(Len(runs), c, CategoryOf(calls[c].outcome), stages[k]) = 1

TagNo(h) == CHOOSE n \in DOMAIN Tags : Tags[n] = h.tag

\* C4: within one category the handlers fire in the order they were attached,
\* the first on the transport payload and each later one on the value the
\* previous one returned; the last value is the payload extended by the tags
\* in that order.
C4_HandlerOrder ==
  /\ \A r \in Req, cat \in Cats :
       \A j, k \in DOMAIN callbacks[r][cat] :
         (j < k /\ callbacks[r][cat][j].kind # "cleanup" /\ callbacks[r][cat][k].kind # "cleanup")
           => TagNo(callbacks[r][cat][j]) < TagNo(callbacks[r][cat][k])
  /\ \A i \in DOMAIN runs :
       runs[i].pipe \in Cats =>
         LET run == runs[i]
             stages == callbacks[run.req][run.pipe]
         IN  /\ (run.cause = "settle" => run.input = calls[run.call].outcome)
             /\ (~run.threw => Len(run.invs) = run.len)
             /\ \A k \in DOMAIN run.invs :
                  /\ run.invs[k].h = stages[k]
                  /\ run.invs[k].in = (IF k = 1 THEN run.input ELSE run.invs[k - 1].out)
                  /\ (k < Len(run.invs) \/ ~run.threw) =>
                       run.invs[k].out = (IF stages[k].kind = "cleanup" THEN run.invs[k].in
                                          ELSE run.invs[k].in \o <<stages[k].tag>>)

C4_Witness ==
  \E i \in DOMAIN runs :
    /\ runs[i].pipe = "onOk"
    /\ runs[i].cause = "settle"
    /\ Len(runs[i].invs) = 3
    /\ runs[i].invs[3].out = <<"res200", "h1", "h2">>

\* C5: a handler attached to a category the Request has settled in is run
\* within the attach call, on the value the last handler before it returned,
\* and the attach call raises nothing.
C5_PostHandler ==
  (/\ lastOp.op \in Methods
   /\ result[lastOp.req].isReady
   /\ \E c \in Settled :
        /\ Current(c)
        /\ \E n \in DOMAIN EventsOf(lastOp.op) :
             EventsOf(lastOp.op)[n] = CategoryOf(calls[c].outcome))
  => /\ ~lastOp.threw
     /\ LET run == runs[Len(runs)]
            cb == UserHandler("append", nAttach)
        IN  /\ run.cause = "attach"
            /\ CountIn(run.invs, cb) = 1

\* C8: the status pipe registered for the status of a response is run before
\* the ok / fail pipe of the settlement, and each callback it held then is
\* invoked exactly once for that settlement, accepted or not.
C8_StatusDispatch ==
  \A c \in Settled :
    \A j \in RunsOf(c) :
      (runs[j].pipe = "onStatus" /\ runs[j].cause = "settle") =>
        /\ \E i \in RunsOf(c) : i > j /\ runs[i].pipe \in {"onOk", "onFail"}
        /\ \A i \in RunsOf(c) : runs[i].pipe \in {"onOk", "onFail"} => i > j
        /\ \A k \in DOMAIN runs[j].invs :
             CountRuns(Len(runs), c, "onStatus", runs[j].invs[k].h) = 1

\* a startSingle that directly follows a startSingle still in flight, for the
\* same method, url and identifier
SecondSingle ==
  /\ lastOp.op = "startSingle"
  /\ lastOp.call # NoCall
  /\ nOps' = nOps + 1
  /\ lastOp'.op = "startSingle"
  /\ lastOp.call \in lastOp'.victims

\* C9: a startSingle with the method, url and identifier of a startSingle call
\* still in flight invokes that call's cancel function and raises nothing, and
\* the first call then settles through the cancel pipe only.
C9_SingleFlight ==
  [][/\ SecondSingle => (~lastOp'.threw /\ lastOp.call \in lastOp'.cancelled)
     /\ \A c \in Settled : calls[c].cancelled =>
          \A i \in RunsOf(c) : runs[i].pipe = "onCancel"]_vars

\* C10: of two startSingle calls fired in immediate succession for one method,
\* url and identifier exactly one ends on the cancel path: the first is
\* cancelled, the second is started and not cancelled by its own dedup step.
C10_ExactlyOneCancelled ==
  [][SecondSingle =>
       /\ calls'[lastOp.call].cancelled
       /\ lastOp'.call # NoCall
       /\ lastOp'.call \notin lastOp'.cancelled
       /\ ~calls'[lastOp'.call].cancelled]_vars

----------------------------------------------------------------------------
(* Properties of the pending registry *)

\* a step that is a startSingle call
SingleStep == nOps' = nOps + 1 /\ lastOp'.op = "startSingle"

\* C11: a startSingle invokes the cancel function of no call that was started
\* for another (method, url, identifier) triple, whether or not hashCode tells
\* the two triples apart.
C11_OtherTripleUntouched ==
  [][SingleStep =>
       /\ lastOp'.cancelled \subseteq lastOp'.victims
       /\ \A c \in DOMAIN calls :
            c \notin lastOp'.victims => calls'[c].cancelled = calls[c].cancelled]_vars

C11_Witness ==
  /\ lastOp.op = "startSingle"
  /\ ~lastOp.threw
  /\ lastOp.call # NoCall
  /\ \E c \in DOMAIN calls :
       /\ c < lastOp.call
       /\ ~calls[c].settled
       /\ ~calls[c].cancelled
       /\ calls[c].identifier # calls[lastOp.call].identifier

\* the calls started by a Request whose params differ from those of Request r
OtherParams(r) == {c \in DOMAIN calls : configs[calls[c].req].params # configs[r].params}

StartThenSingle ==
  /\ lastOp.op = "start"
  /\ SingleStep
  /\ lastOp.call \in lastOp'.victims

\* C13: a call started with plain start(id) is in the registry under its key,
\* and a startSingle(id) for the same method and url issued while it is in
\* flight cancels it.
C13_StartIsTracked ==
  [][StartThenSingle =>
       /\ calls[lastOp.call].info \in DOMAIN pendingRequests
       /\ calls[lastOp.call].rid \in DOMAIN pendingRequests[calls[lastOp.call].info]
       /\ lastOp.call \in lastOp'.cancelled
       /\ calls'[lastOp.call].cancelled]_vars

\* C15: the registry holds no key whose inner mapping is empty.
C15_NoEmptyBucket ==
  \A info \in DOMAIN pendingRequests : DOMAIN pendingRequests[info] # {}

C15_Witness ==
  \E c \in Settled, c2 \in DOMAIN calls :
    /\ ~calls[c2].settled
    /\ calls[c2].info = calls[c].info
    /\ calls[c].info \in DOMAIN pendingRequests
    /\ DOMAIN pendingRequests[calls[c].info] = {calls[c2].rid}
    /\ \E i \in RunsOf(c) : ~runs[i].threw /\ runs[i].len >= 1

\* call c still has its cancel function in the registry
Registered(c) ==
  /\ calls[c].info \in DOMAIN pendingRequests
  /\ calls[c].rid \in DOMAIN pendingRequests[calls[c].info]

\* C14: the cancel function start registers for a call is out of the registry
\* once the call has settled, restarts of one Request with the same or another
\* identifier included, and the registry is empty once every call has settled.
C14_NoRegistryLeak ==
  /\ \A c \in Settled : ~Registered(c)
  /\ (\A c \in DOMAIN calls : calls[c].settled) => pendingRequests = EmptyRegistry

\* the terminal-pipe runs the step has added to the history
NewTerminalRuns == {i \in DOMAIN runs' : i > Len(runs) /\ runs'[i].pipe \in Cats}

\* C16: start or startSingle on a settled Request, with the same or another
\* identifier, issues exactly one new transport call and raises nothing, and
\* the settlement of that call runs exactly one terminal pipe, the one of the
\* call's outcome, to its end.
C16_Restart ==
  [][/\ (nOps' = nOps + 1 /\ lastOp'.op \in {"start", "startSingle"} /\ Restart(lastOp'.req))
        => /\ ~lastOp'.threw
           /\ Len(calls') = Len(calls) + 1
           /\ lastOp'.call = Len(calls')
     /\ (lastOp'.op = "settle" /\ nOps' = nOps /\ runs' # runs /\ calls[lastOp'.call].restart)
        => /\ ~lastOp'.threw
           /\ Cardinality(NewTerminalRuns) = 1
           /\ \A i \in NewTerminalRuns :
                /\ runs'[i].pipe = CategoryOf(calls'[lastOp'.call].outcome)
                /\ runs'[i].input = calls'[lastOp'.call].outcome
                /\ ~runs'[i].threw]_vars

----------------------------------------------------------------------------
(* Properties of the asynchronous handle *)

\* the pipe run the settlement of call c made on the pipe of its category
SettleRun(c) ==
  CHOOSE i \in RunsOf(c) :
    runs[i].cause = "settle" /\ runs[i].pipe = CategoryOf(calls[c].outcome)

\* the value the handlers the category held at the settlement of call c give
\* for its payload, each applied to the value of the one before
LastValue(c) ==
  Compose(callbacks[calls[c].req][CategoryOf(calls[c].outcome)],
          runs[SettleRun(c)].len, calls[c].outcome)

SettledIn(cat) == {c \in Settled : CategoryOf(calls[c].outcome) = cat}

----------------------------------------------------------------------------
(* Properties of cancellation *)

\* a step that settles a call whose cancel function was invoked runs the
\* cancel pipe on the cancellation payload, and no other terminal pipe
CancelledSettles ==
  (lastOp'.op = "settle" /\ nOps' = nOps /\ runs' # runs /\ calls[lastOp'.call].cancelled)
    => /\ calls'[lastOp'.call].outcome = Cancel
       /\ NewTerminalRuns # {}
       /\ \A i \in NewTerminalRuns :
            /\ runs'[i].pipe = "onCancel"
            /\ runs'[i].call = lastOp'.call
            /\ runs'[i].input = Cancel

C22_OwnCancelFunction ==
  [][/\ (nOps' = nOps + 1 /\ lastOp'.op = "cancel")
        => /\ lastOp'.cancelled = {lastOp'.call}
           /\ calls'[lastOp'.call].cancelled
           /\ \A c \in DOMAIN calls : c # lastOp'.call => calls'[c] = calls[c]
     /\ CancelledSettles
     /\ (lastOp'.op = "settle" /\ nOps' = nOps /\ ~calls[lastOp'.call].cancelled)
          => calls'[lastOp'.call].outcome # Cancel]_vars

C22_Witness ==
  /\ lastOp.op = "settle"
  /\ calls[lastOp.call].cancelled
  /\ \E i \in RunsOf(lastOp.call) : runs[i].pipe = "onCancel" /\ runs[i].cause = "settle"
  /\ \E c \in DOMAIN calls :
       /\ c # lastOp.call
       /\ calls[c].req = calls[lastOp.call].req
       /\ ~calls[c].cancelled

----------------------------------------------------------------------------
(* Properties of the attachment operations *)

\* k copies of callback cb
Copies(cb, k) == [i \in 1..k |-> cb]

\* how often the event names name the category
Occurrences(eventNames, cat) == Cardinality({i \in DOMAIN eventNames : eventNames[i] = cat})

\* the callback the next attachment hands over
NextCallback == UserHandler("append", nAttach + 1)

\* the four pipes of r1 after the callback was appended to the categories the
\* event names name, once per occurrence
Appended(eventNames) ==
  \A cat \in Cats :
    callbacks'["r1"][cat] = callbacks["r1"][cat] \o Copies(NextCallback, Occurrences(eventNames, cat))

\* C23: onAny with an event name that is none of onOk, onFail, onCancel,
\* onError and no onStatus=... form raises nothing and changes no pipe for that
\* name, and the supported names of the same call are attached.
C23_UnsupportedIgnored ==
  [][\A eventNames \in Unsupported :
       AttachAny("r1", eventNames, "append") =>
         /\ ~lastOp'.threw
         /\ Appended(eventNames)
         /\ onStatus' = onStatus]_vars

\* C24: onAny with an event name onStatus=<spec> whose <spec> is no status
\* code and no JSON array of status codes raises nothing and creates or
\* extends no status pipe.
C24_MalformedIgnored ==
  [][\A eventNames \in Malformed :
       AttachAny("r1", eventNames, "append") =>
         /\ ~lastOp'.threw
         /\ Appended(eventNames)
         /\ onStatus' = onStatus]_vars

\* how often the status event names name the status code
RECURSIVE CodeOccurrences(_, _)
CodeOccurrences(eventNames, code) ==
  IF eventNames = <<>> THEN 0
  ELSE Cardinality({i \in DOMAIN StatusEvent(Head(eventNames)).statuses :
                      StatusEvent(Head(eventNames)).statuses[i] = code})
       + CodeOccurrences(Tail(eventNames), code)

StatusPipe(r, code) == IF code \in DOMAIN onStatus[r] THEN onStatus[r][code] ELSE <<>>

\* every callback of the status pipe of a settled response was invoked for that
\* settlement as often as the pipe holds it
StatusInvocations ==
  \A c \in Settled :
    (Current(c) /\ calls[c].outcome \in Responses) =>
      LET stages == StatusPipe(calls[c].req, StatusOf(calls[c].outcome))
      IN  \A k \in DOMAIN stages :
            CountRuns(Len(runs), c, "onStatus", stages[k])
              = Cardinality({j \in DOMAIN stages : stages[j] = stages[k]})

\* C25: onAny with onStatus=<code> and onStatus=<JSON array of codes> names
\* appends the callback to the status pipe of each code once per occurrence, and
\* a response with a status invokes each callback of its status pipe as often
\* as it was named, in that settlement.
C25_StatusPerOccurrence ==
  [][/\ \A eventNames \in StatusLists :
          AttachAny("r1", eventNames, "append") =>
            \A code \in {"200", "201", "202"} :
              StatusPipe("r1", code)' =
                StatusPipe("r1", code) \o Copies(NextCallback, CodeOccurrences(eventNames, code))
     /\ StatusInvocations']_vars

\* the pipes the documentation names for the combined attachment operations
PipesOf(method) ==
  CASE method = "onResponse" -> {"onOk", "onFail"}
    [] method = "then"       -> {"onOk", "onFail", "onCancel", "onError"}
    [] method = "onAnyError" -> {"onFail", "onError", "onCancel"}

\* the callbacks Request r holds in all four pipes: the ones then attached
ThenCallbacks(r) ==
  {h \in {callbacks[r]["onOk"][k] : k \in DOMAIN callbacks[r]["onOk"]} :
     /\ h.kind # "cleanup"
     /\ \A cat \in Cats : \E k \in DOMAIN callbacks[r][cat] : callbacks[r][cat][k] = h}

\* C26: onResponse appends the callback to the ok and fail pipes, then to all
\* four, onAnyError to fail, error and cancel, and to no other pipe; a then
\* callback is run on every outcome.
C26_CombinedAttach ==
  [][/\ \A method \in Combined :
          Attach("r1", method, "append") =>
            \A cat \in Cats :
              callbacks'["r1"][cat] =
                callbacks["r1"][cat] \o Copies(NextCallback, IF cat \in PipesOf(method) THEN 1 ELSE 0)
     /\ (lastOp'.op = "settle" /\ nOps' = nOps /\ runs' # runs)
          => \A h \in ThenCallbacks(lastOp'.req) :
               \E i \in NewTerminalRuns : CountIn(runs'[i].invs, h) = 1]_vars

----------------------------------------------------------------------------
(* Properties of transport failures and transport calls *)

Failures == {Cancel, NetworkError}

\* C27: for a call the transport failed, every pipe the Request runs is the
\* cancel pipe when the failure payload is the transport's cancellation signal
\* and the error pipe for any other payload, it is run on that payload, and it
\* is run at the settlement; the ok and fail pipes are never run for the call.
C27_FailureDispatch ==
  \A c \in Settled :
    calls[c].outcome \in Failures =>
      /\ \A i \in RunsOf(c) :
           /\ runs[i].pipe = (IF calls[c].outcome = Cancel THEN "onCancel" ELSE "onError")
           /\ runs[i].input = calls[c].outcome
      /\ \E i \in RunsOf(c) : runs[i].cause = "settle"

C27_Witness ==
  /\ \E c \in Settled :
       /\ calls[c].outcome = Cancel
       /\ \E i \in RunsOf(c) : runs[i].cause = "settle" /\ runs[i].pipe = "onCancel"
  /\ \E c \in Settled :
       /\ calls[c].outcome = NetworkError
       /\ \E i \in RunsOf(c) : runs[i].cause = "settle" /\ runs[i].pipe = "onError"

\* the step is an invocation of start or startSingle
StartInvoked == nOps' = nOps + 1 /\ lastOp'.op \in {"start", "startSingle"}

\* C28: every invocation of start or startSingle issues exactly one transport
\* call, and no settlement, cancellation or attachment issues one: the number
\* of transport calls grows by one with each invocation and with nothing else.
C28_OneCallPerStart ==
  [][Len(calls') = Len(calls) + (IF StartInvoked THEN 1 ELSE 0)]_vars

\* C30: every transport call that was started and has not settled has its own
\* cancel function in the registry bucket of its key, also when one Request
\* has several calls in flight.
C30_RegistryCoverage ==
  \A c \in DOMAIN calls :
    ~calls[c].settled =>
      /\ Registered(c)
      /\ pendingRequests[calls[c].info][calls[c].rid] = c

----------------------------------------------------------------------------
(* Properties of hashCode *)

\* the two 16-bit limbs of the two's complement of a signed 32-bit integer
Limbs(v) == [lo |-> v % 65536, hi |-> (v \div 65536) % 65536]

\* h * 31 + chr modulo 2^32, on limbs
Times31Plus(h, chr) ==
  [lo |-> (h.lo * 31 + chr) % 65536,
   hi |-> (h.hi * 31 + (h.lo * 31 + chr) \div 65536) % 65536]

\* the Java string hash: from 0, hash * 31 + c for each char code c in turn
RECURSIVE JavaHash(_)
JavaHash(s) ==
  IF s = <<>> THEN [lo |-> 0, hi |-> 0]
  ELSE Times31Plus(JavaHash(SubSeq(s, 1, Len(s) - 1)), s[Len(s)])

\* C29: hashCode returns the Java string hash of its argument wrapped to the
\* signed 32-bit range: a value between -2^31 and 2^31 - 1 that the string
\* alone decides, 0 for the empty string (and 2112 for "Aa").
C29_JavaHash ==
  /\ Limbs(hashKey) = JavaHash(hashStr)
  /\ hashKey >= -2147483647 - 1
  /\ hashKey <= 2147483647
  /\ hashStr = StrEmpty => hashKey = 0
  /\ hashStr = StrAa => hashKey = 2112

C29_Witness ==
  /\ Len(hashStr) = MaxStrLen
  /\ hashKey < 0

----------------------------------------------------------------------------
(* Properties of the registry with several calls in flight *)

\* C31: two calls registered under the same key never have the same request
\* id, also when they are started within one millisecond, so that no
\* registration overwrites the cancel function of another call.
C31_UniqueIds ==
  \A c1, c2 \in DOMAIN calls :
    (c1 # c2 /\ calls[c1].info = calls[c2].info) => calls[c1].rid # calls[c2].rid

\* the step is a startSingle invocation
SingleInvoked == nOps' = nOps + 1 /\ lastOp'.op = "startSingle"

\* the calls pending in the registry under the key of the startSingle of the step
PendingVictims == {v \in lastOp'.victims : Registered(v)}

\* C32: a startSingle with several calls pending under its key invokes the
\* cancel function of every one of them and then issues its own transport call.
C32_CancelsEveryPending ==
  [][(SingleInvoked /\ Cardinality(PendingVictims) >= 2) =>
       /\ ~lastOp'.threw
       /\ lastOp'.cancelled = PendingVictims
       /\ \A v \in PendingVictims : calls'[v].cancelled
       /\ Len(calls') = Len(calls) + 1]_vars

\* C33: the startSingle that invokes the cancel functions of the pending calls
\* issues and registers its own call in the same turn: after the step the new
\* call is in flight and in the registry, and no cancelled call has settled or
\* run its cancel pipe.
C33_NoWaitForCancel ==
  [][(SingleInvoked /\ PendingVictims # {}) =>
       /\ Len(calls') = Len(calls) + 1
       /\ ~calls'[Len(calls')].settled
       /\ calls'[Len(calls')].info \in DOMAIN pendingRequests'
       /\ calls'[Len(calls')].rid \in DOMAIN pendingRequests'[calls'[Len(calls')].info]
       /\ \A v \in PendingVictims : calls'[v].cancelled /\ ~calls'[v].settled
       /\ runs' = runs]_vars

\* the step is the settlement of call lastOp'.call
SettleStep == lastOp'.op = "settle" /\ nOps' = nOps /\ runs' # runs

\* C34: the settlement of a call leaves the registry entry of every other call
\* that is in flight as it was.
C34_SettlementFrame ==
  [][SettleStep =>
       \A c \in DOMAIN calls :
         (c # lastOp'.call /\ ~calls[c].settled /\ Registered(c)) =>
           /\ calls[c].info \in DOMAIN pendingRequests'
           /\ calls[c].rid \in DOMAIN pendingRequests'[calls[c].info]
           /\ pendingRequests'[calls[c].info][calls[c].rid]
                = pendingRequests[calls[c].info][calls[c].rid]]_vars

\* the step attaches a handler to a Request that has a call in flight
AttachInFlight ==
  /\ nOps' = nOps + 1
  /\ lastOp'.op \in Methods \cup {"onStatus", "onAny"}
  /\ \E c \in DOMAIN calls : calls[c].req = lastOp'.req /\ ~calls[c].settled

\* C37: attaching a handler to a Request that has a call in flight processes
\* no pipe.
C37_NoRunInFlight ==
  [][AttachInFlight => runs' = runs]_vars

\* the value handed to invocation k of a run by the caller's handlers: the
\* output of the last one before k, the input of the run when there is none
RECURSIVE HandedOn(_, _)
HandedOn(run, k) ==
  IF k = 1 THEN run.input
  ELSE IF run.invs[k - 1].h.kind # "cleanup" THEN run.invs[k - 1].out
  ELSE HandedOn(run, k - 1)

----------------------------------------------------------------------------
(* Properties of the status pipe and of handlers that throw *)

\* C35: the ok or fail pipe is always run on the transport response itself,
\* which is what its first handler receives whatever the status handlers
\* returned, and it is the pipe the validation of the response alone chooses.
C35_StatusSideEffectOnly ==
  \A i \in DOMAIN runs :
    runs[i].pipe \in {"onOk", "onFail"} =>
      /\ runs[i].input = calls[runs[i].call].outcome
      /\ runs[i].input \in Responses
      /\ runs[i].pipe = (IF Accepted(runs[i].input) THEN "onOk" ELSE "onFail")
      /\ runs[i].invs # <<>> => runs[i].invs[1].in = runs[i].input

C35_Witness ==
  \E i \in DOMAIN runs :
    /\ i >= 2
    /\ runs[i].pipe = "onOk"
    /\ Len(runs[i].invs) >= 2
    /\ runs[i].invs[1].h.kind = "append"
    /\ runs[i - 1].pipe = "onStatus"
    /\ runs[i - 1].call = runs[i].call
    /\ runs[i - 1].invs # <<>>
    /\ runs[i - 1].invs[Len(runs[i - 1].invs)].out # runs[i].input

\* the runs the step added for the transport success that threw
ThrewAtSettle ==
  {i \in DOMAIN runs' : i > Len(runs) /\ runs'[i].cause = "settle" /\ runs'[i].threw
                         /\ runs'[i].pipe \in {"onStatus", "onOk", "onFail"}}

\* C38: when a handler of the status, ok or fail pipe throws while a transport
\* success is processed, the Request records an error result with the thrown
\* value and next runs the cancel pipe on it when it is a cancellation signal,
\* the error pipe otherwise, and no ok or fail pipe after it.
C38_ThrowBecomesFailure ==
  [][SettleStep =>
       \A i \in ThrewAtSettle :
         LET v == runs'[i].invs[Len(runs'[i].invs)].out
         IN  /\ result'[lastOp'.req].isError
             /\ result'[lastOp'.req].thrown = v
             /\ Len(runs') = i + 1
             /\ runs'[i + 1].cause = "catch"
             /\ runs'[i + 1].pipe = (IF v = Cancel THEN "onCancel" ELSE "onError")
             /\ runs'[i + 1].input = v]_vars

C38_Witness ==
  /\ lastOp.op = "settle"
  /\ Len(runs) >= 2
  /\ runs[Len(runs)].cause = "catch"
  /\ runs[Len(runs)].pipe = "onCancel"
  /\ runs[Len(runs)].input = Cancel
  /\ runs[Len(runs) - 1].pipe = "onOk"
  /\ runs[Len(runs) - 1].invs[Len(runs[Len(runs) - 1].invs)].h.kind = "throwCancel"

----------------------------------------------------------------------------
(* Properties of the scope of the registry and of its keys *)

\* the calls in flight with the key of r and the empty identifier that were
\* started through another / the same ApiConnector instance
LiveElsewhere(r) ==
  {c \in DOMAIN calls : /\ ~calls[c].settled
                        /\ calls[c].info = Info(configs[r], StrEmpty)
                        /\ Connector(calls[c].req) # Connector(r)}
LiveHere(r) ==
  {c \in DOMAIN calls : /\ ~calls[c].settled
                        /\ calls[c].info = Info(configs[r], StrEmpty)
                        /\ Connector(calls[c].req) = Connector(r)}

Concat(r, identifier) == configs[r].method \o configs[r].url \o identifier

\* the calls pending in the registry whose method, url and identifier differ
\* from those of r and identifier and concatenate to the same string
SameConcat(r, identifier) ==
  {c \in DOMAIN calls :
     /\ ~calls[c].settled
     /\ Registered(c)
     /\ <<configs[calls[c].req].url, calls[c].identifier>> # <<configs[r].url, identifier>>
     /\ Concat(calls[c].req, calls[c].identifier) = Concat(r, identifier)}

\* C39: calls whose method + url + identifier is the same string have the
\* same key and bucket, whatever the three parts are, and a startSingle of one
\* cancels the other.
C39_KeyOfConcatenation ==
  [][/\ \A c1, c2 \in DOMAIN calls' :
          Concat(calls'[c1].req, calls'[c1].identifier) = Concat(calls'[c2].req, calls'[c2].identifier)
            => calls'[c1].info = calls'[c2].info
     /\ \A r \in ConcatRequests, identifier \in Identifiers :
          StartSingle(r, identifier, 1) =>
            \A c \in SameConcat(r, identifier) : calls'[c].cancelled]_vars

====
